---- MODULE Spec2Model ----
(***************************************************************************)
(* The mediated-transfer state machines of src/src/state-channel/           *)
(* state-machine.ts (InitiatorFactory, TargetFactory, MessageState) and the *)
(* part of src/lib/state-channel/message.js their handlers read (the        *)
(* `from` getter of SignedMessage, the derived hashLock of a secret).       *)
(*                                                                          *)
(* A record (the `state` a MessageState holds) is driven by handle() calls; *)
(* one action of the model is one whole handle() call.  machina's           *)
(* BehavioralFsm supplies the dispatch: the handler named by the event in   *)
(* the record's current state, else the state's '*' handler, else nothing.  *)
(*                                                                          *)
(* The message layer of message.js (constructors, getHash, sign, the `from` *)
(* getter, SERIALIZE and DESERIALIZE_AND_DECODE_MESSAGE) is modelled on one *)
(* message object, `codec.m`, under the specification SpecCodec.            *)
(***************************************************************************)
EXTENDS Integers, Sequences, FiniteSets, TLC

VARIABLES
  recs,       \* record id -> MessageState: [stateMachine, state]
  emitted,    \* record id -> the GOT.* side-effects emitted for it, in order
  lastBlock,  \* record id -> the latest block height handed to the record (history)
  last,       \* the latest handle() call: its event, the record before it, its outcome
  codec       \* the message object under SERIALIZE / decode / sign, and its latest call

vars == <<recs, emitted, lastBlock, last, codec>>

----------------------------------------------------------------------------
(* Bounds of the model. *)

MaxBlock == 2
MaxExpiration == 4

(* channel.REVEAL_TIMEOUT: imported from ./channel, used at
   state-machine.ts:122,153,172.  The handlers only add it to the block. *)
REVEAL_TIMEOUT == 1

Addresses == {"B", "C"}
Secrets == {"S", "X"}
MsgIDs == {1, 2}
Blocks == 0..MaxBlock
Expirations == 1..MaxExpiration

Undefined == "undefined"
NoBlock == 0 - 1

(* util.sha3 (keccak256): deterministic and collision-free on the secrets of
   the model; a digest is never equal to its pre-image. *)
sha3(secret) == <<"keccak256", secret>>

HashLocks == {sha3(s) : s \in Secrets}

----------------------------------------------------------------------------
(* Messages.  `signature` is null or names the address ecrecover yields for
   the message's hash. *)

Null == "null"

RequestSecrets ==
  [classType : {"RequestSecret"}, signature : Addresses \cup {Null},
   msgID : MsgIDs, hashLock : HashLocks]

RevealSecrets ==
  [classType : {"RevealSecret"}, signature : Addresses \cup {Null},
   secret : Secrets]

SecretToProofs ==
  [classType : {"SecretToProof"}, signature : Addresses \cup {Null},
   msgID : MsgIDs, secret : Secrets]

BlockNumbers == [classType : {"BN"}, value : Blocks]

(* SignedMessage.isSigned *)
isSigned(msg) == msg.signature # Null

(* SignedMessage.from: defined only for a signed message; the getter throws
   otherwise (modelled by the callers, which test isSigned first). *)
from(msg) == msg.signature

(* RevealSecret.hashLock / SecretToProof.hashLock: derived from the secret. *)
hashLockOf(msg) == sha3(msg.secret)

----------------------------------------------------------------------------
(* Records.  A TransferState is the MediatedTransfer payload (the fields the
   handlers read), the working fields secret and revealTo, and the label
   machina keeps for it.  A MessageState pairs it with its machine. *)

InitiatorLabels ==
  {"init", "awaitRequestSecret", "awaitRevealSecret",
   "completedTransfer", "failedTransfer", "expiredTransfer"}

TargetLabels ==
  {"init", "awaitRevealSecret", "awaitSecretToProof",
   "completedTransfer", "expiredTransfer"}

TerminalLabels == {"completedTransfer", "failedTransfer", "expiredTransfer"}

(* new MessageState(state, stateMachine); machina enters initialState 'init'
   on the first handle() for the record, before dispatching it. *)
MessageState(state, stateMachine) ==
  [state |-> state, stateMachine |-> stateMachine]

(* The records an engine hands to the Initiator machine: its own transfer.
   The Initiator's handlers read msgID, to, target and lock.hashLock; the
   fields they never read are held at one value.  The lock's expiration is
   one that the block ticks of the model pass. *)
InitiatorTransferStates ==
  [label : {"init"}, signature : {"D"}, msgID : MsgIDs,
   to : Addresses, target : Addresses, initiator : {"D"},
   lock : [expiration : {REVEAL_TIMEOUT + 1}, hashLock : HashLocks],
   secret : {Undefined}, revealTo : {Undefined}]

(* The records an engine hands to the Target machine: a MediatedTransfer it
   received, signed by the hop it came from.  The Target's handlers read
   lock.expiration, lock.hashLock, initiator and `from`. *)
TargetTransferStates ==
  [label : {"init"}, signature : Addresses, msgID : {1},
   to : {"A"}, target : {"A"}, initiator : Addresses,
   lock : [expiration : Expirations, hashLock : HashLocks],
   secret : {Undefined}, revealTo : {Undefined}]

----------------------------------------------------------------------------
(* The run of one handler: the record as changed so far, the side-effects
   emitted so far, and whether the handler threw. *)

NoListener == [feeds |-> 0]

Start(state) ==
  [state |-> state, out |-> <<>>, threw |-> FALSE, listener |-> NoListener]

(* A listener on the machine that, when called, hands an event for the record
   back to handle(), the next `feeds` times it is called. *)
Refeed(feeds, stateMachine, inputType, payload) ==
  [feeds |-> feeds, stateMachine |-> stateMachine, inputType |-> inputType,
   payload |-> payload]

Listening(cx, listener) == [cx EXCEPT !.listener = listener]

RECURSIVE handle(_, _, _, _)

(* this.emit('GOT.<name>', state): the listeners get the record itself, as it
   is at the time of the emit, and run before emit returns; machina's handle()
   has no guard against being entered again from a listener. *)
emit(cx, name) ==
  LET sent == [cx EXCEPT !.out = Append(@, [event |-> name,
                                            label |-> cx.state.label,
                                            secret |-> cx.state.secret,
                                            revealTo |-> cx.state.revealTo])]
  IN  IF sent.listener.feeds > 0
        THEN handle([sent EXCEPT !.listener.feeds = @ - 1],
                    sent.listener.stateMachine, sent.listener.inputType,
                    sent.listener.payload)
        ELSE sent

(* this.transition(state, newState): machina moves the record's label when the
   new state differs from the current one. *)
transition(cx, newState) ==
  IF newState # cx.state.label
    THEN [cx EXCEPT !.state.label = newState]
    ELSE cx

(* A TypeError or the Error of the `from` getter: the handler stops where it
   is; every throw of these handlers precedes their first assignment. *)
throw(cx) == [cx EXCEPT !.threw = TRUE]

(* lock.expiration.lte(currentBlock.add(channel.REVEAL_TIMEOUT)) *)
expired(state, currentBlock) ==
  state.lock.expiration <= currentBlock.value + REVEAL_TIMEOUT

----------------------------------------------------------------------------
(* InitiatorFactory.states *)

(* Mutant: the catch-all moves the record first and announces it after. *)
InitiatorInit_moveFirst(cx) ==
  emit(transition(cx, "awaitRequestSecret"), "sendMediatedTransfer")

(* Mutant: the catch-all moves on without announcing the transfer. *)
InitiatorInit_silent(cx) ==
  transition(cx, "awaitRequestSecret")

(* init['*'] *)
InitiatorInit(cx) ==
  transition(emit(cx, "sendMediatedTransfer"), "awaitRequestSecret")

(* Mutant: the accepted request completes the transfer at once. *)
InitiatorReceiveRequestSecret_skip(cx, requestSecret) ==
  IF ~isSigned(requestSecret) THEN throw(cx)
  ELSE IF /\ cx.state.target = from(requestSecret)
          /\ cx.state.lock.hashLock = requestSecret.hashLock
          /\ cx.state.msgID = requestSecret.msgID
    THEN transition(
           emit([cx EXCEPT !.state.revealTo = cx.state.target],
                "sendRevealSecret"),
           "completedTransfer")
    ELSE cx

(* Mutant: the msgID of the request is not compared. *)
InitiatorReceiveRequestSecret_anyMsgID(cx, requestSecret) ==
  IF ~isSigned(requestSecret) THEN throw(cx)
  ELSE IF /\ cx.state.target = from(requestSecret)
          /\ cx.state.lock.hashLock = requestSecret.hashLock
    THEN transition(
           emit([cx EXCEPT !.state.revealTo = cx.state.target],
                "sendRevealSecret"),
           "awaitRevealSecret")
    ELSE cx

(* awaitRequestSecret.receiveRequestSecret: requestSecret.from is read first. *)
InitiatorReceiveRequestSecret(cx, requestSecret) ==
  IF ~isSigned(requestSecret) THEN throw(cx)
  ELSE IF /\ cx.state.target = from(requestSecret)
          /\ cx.state.lock.hashLock = requestSecret.hashLock
          /\ cx.state.msgID = requestSecret.msgID
    THEN transition(
           emit([cx EXCEPT !.state.revealTo = cx.state.target],
                "sendRevealSecret"),
           "awaitRevealSecret")
    ELSE cx

(* Mutant: any secret of the partner unlocks. *)
InitiatorReceiveRevealSecret_anySecret(cx, secretReveal) ==
  IF ~isSigned(secretReveal) THEN throw(cx)
  ELSE IF from(secretReveal) = cx.state.to
    THEN transition(emit(cx, "sendSecretToProof"), "completedTransfer")
    ELSE cx

(* awaitRevealSecret.receiveRevealSecret: secretReveal.from is read first. *)
InitiatorReceiveRevealSecret(cx, secretReveal) ==
  IF ~isSigned(secretReveal) THEN throw(cx)
  ELSE IF /\ from(secretReveal) = cx.state.to
          /\ cx.state.lock.hashLock = sha3(secretReveal.secret)
    THEN transition(emit(cx, "sendSecretToProof"), "completedTransfer")
    ELSE cx

----------------------------------------------------------------------------
(* TargetFactory.states *)

(* Mutant: the margin is tested with < in place of lte. *)
TargetInit_strict(cx, currentBlock) ==
  IF currentBlock.classType # "BN" THEN throw(cx)
  ELSE IF cx.state.lock.expiration < currentBlock.value + REVEAL_TIMEOUT
    THEN transition(cx, "expiredTransfer")
    ELSE transition(emit(cx, "sendRequestSecret"), "awaitRevealSecret")

(* init['*'](state, transition, currentBlock): the catch-all gets the event
   name and then the event's payload, which it reads as the block height;
   currentBlock.add is no function of a message. *)
TargetInit(cx, currentBlock) ==
  IF currentBlock.classType # "BN" THEN throw(cx)
  ELSE IF expired(cx.state, currentBlock)
    THEN transition(cx, "expiredTransfer")
    ELSE transition(emit(cx, "sendRequestSecret"), "awaitRevealSecret")

(* Mutant: the secret is announced before it is stored in the record. *)
TargetReceiveRevealSecret_emitFirst(cx, revealSecret) ==
  IF cx.state.lock.hashLock # sha3(revealSecret.secret) THEN cx
  ELSE IF ~isSigned(revealSecret) THEN throw(cx)
  ELSE IF cx.state.initiator = from(revealSecret)
    THEN LET sent == emit(cx, "sendRevealSecret")
         IN  transition([sent EXCEPT !.state.secret = revealSecret.secret,
                                     !.state.revealTo = from(cx.state)],
                        "awaitSecretToProof")
    ELSE cx

(* awaitRevealSecret.receiveRevealSecret: the hash is compared first, and
   revealSecret.from is read only when it matches. *)
TargetReceiveRevealSecret(cx, revealSecret) ==
  IF cx.state.lock.hashLock # sha3(revealSecret.secret) THEN cx
  ELSE IF ~isSigned(revealSecret) THEN throw(cx)
  ELSE IF cx.state.initiator = from(revealSecret)
    THEN transition(
           emit([cx EXCEPT !.state.secret = revealSecret.secret,
                           !.state.revealTo = from(cx.state)],
                "sendRevealSecret"),
           "awaitSecretToProof")
    ELSE cx

(* Mutant: the margin is tested with lt in place of lte. *)
TargetAwaitRevealSecretHandleBlock_strict(cx, currentBlock) ==
  IF cx.state.lock.expiration < currentBlock.value + REVEAL_TIMEOUT
    THEN transition(cx, "expiredTransfer")
    ELSE cx

(* Mutant: a block tick never expires a record that waits for the secret. *)
TargetAwaitRevealSecretHandleBlock_never(cx, currentBlock) == cx

(* awaitRevealSecret.handleBlock *)
TargetAwaitRevealSecretHandleBlock(cx, currentBlock) ==
  IF expired(cx.state, currentBlock)
    THEN transition(cx, "expiredTransfer")
    ELSE cx

(* Mutant: the proof is expected from the initiator, not from the hop the
   transfer came from. *)
TargetReceiveSecretToProof_initiator(cx, secretToProof) ==
  IF ~isSigned(secretToProof) THEN throw(cx)
  ELSE IF from(secretToProof) = cx.state.initiator
    THEN transition(emit(cx, "receiveSecretToProof"), "completedTransfer")
    ELSE cx

(* Mutant: the proof is announced and the record keeps waiting. *)
TargetReceiveSecretToProof_stay(cx, secretToProof) ==
  IF ~isSigned(secretToProof) THEN throw(cx)
  ELSE IF from(secretToProof) = from(cx.state)
    THEN emit(cx, "receiveSecretToProof")
    ELSE cx

(* Mutant: the proof is taken from any signer. *)
TargetReceiveSecretToProof_anySender(cx, secretToProof) ==
  IF ~isSigned(secretToProof) THEN throw(cx)
  ELSE transition(emit(cx, "receiveSecretToProof"), "completedTransfer")

(* awaitSecretToProof.receiveSecretToProof *)
TargetReceiveSecretToProof(cx, secretToProof) ==
  IF ~isSigned(secretToProof) THEN throw(cx)
  ELSE IF from(secretToProof) = from(cx.state)
    THEN transition(emit(cx, "receiveSecretToProof"), "completedTransfer")
    ELSE cx

(* Mutant: past the margin the record expires, as it does while it still
   waits for the secret. *)
TargetAwaitSecretToProofHandleBlock_expire(cx, currentBlock) ==
  IF expired(cx.state, currentBlock)
    THEN transition(cx, "expiredTransfer")
    ELSE cx

(* Mutant: a block tick never settles a record that waits for the proof. *)
TargetAwaitSecretToProofHandleBlock_never(cx, currentBlock) == cx

(* Mutant: the forced settlement moves on without emitting closeChannel. *)
TargetAwaitSecretToProofHandleBlock_silent(cx, currentBlock) ==
  IF expired(cx.state, currentBlock)
    THEN transition(cx, "completedTransfer")
    ELSE cx

(* awaitSecretToProof.handleBlock *)
TargetAwaitSecretToProofHandleBlock(cx, currentBlock) ==
  IF expired(cx.state, currentBlock)
    THEN transition(emit(cx, "closeChannel"), "completedTransfer")
    ELSE cx

----------------------------------------------------------------------------
(* Dispatch.  The states objects as tables: the handler of a label for an
   event, by name if the label has one, else the label's '*', else none. *)

(* Mutant: awaitRevealSecret still answers a RequestSecret. *)
InitiatorStates_replay(cx, inputType, payload) ==
  CASE cx.state.label = "init" -> InitiatorInit(cx)
    [] cx.state.label \in {"awaitRequestSecret", "awaitRevealSecret"}
         /\ inputType = "receiveRequestSecret"
         -> InitiatorReceiveRequestSecret(cx, payload)
    [] cx.state.label = "awaitRevealSecret"
         /\ inputType = "receiveRevealSecret"
         -> InitiatorReceiveRevealSecret(cx, payload)
    [] OTHER -> cx

InitiatorStates(cx, inputType, payload) ==
  CASE cx.state.label = "init" -> InitiatorInit(cx)
    [] cx.state.label = "awaitRequestSecret"
         /\ inputType = "receiveRequestSecret"
         -> InitiatorReceiveRequestSecret(cx, payload)
    [] cx.state.label = "awaitRevealSecret"
         /\ inputType = "receiveRevealSecret"
         -> InitiatorReceiveRevealSecret(cx, payload)
    [] OTHER -> cx

(* Mutant: a label without a handler for the event falls back to the
   catch-all of init. *)
TargetStates_catchAll(cx, inputType, payload) ==
  CASE cx.state.label = "awaitRevealSecret"
         /\ inputType = "receiveRevealSecret"
         -> TargetReceiveRevealSecret(cx, payload)
    [] cx.state.label = "awaitRevealSecret" /\ inputType = "handleBlock"
         -> TargetAwaitRevealSecretHandleBlock(cx, payload)
    [] cx.state.label = "awaitSecretToProof"
         /\ inputType = "receiveSecretToProof"
         -> TargetReceiveSecretToProof(cx, payload)
    [] cx.state.label = "awaitSecretToProof" /\ inputType = "handleBlock"
         -> TargetAwaitSecretToProofHandleBlock(cx, payload)
    [] OTHER -> TargetInit(cx, payload)

TargetStates(cx, inputType, payload) ==
  CASE cx.state.label = "init" -> TargetInit(cx, payload)
    [] cx.state.label = "awaitRevealSecret"
         /\ inputType = "receiveRevealSecret"
         -> TargetReceiveRevealSecret(cx, payload)
    [] cx.state.label = "awaitRevealSecret" /\ inputType = "handleBlock"
         -> TargetAwaitRevealSecretHandleBlock(cx, payload)
    [] cx.state.label = "awaitSecretToProof"
         /\ inputType = "receiveSecretToProof"
         -> TargetReceiveSecretToProof(cx, payload)
    [] cx.state.label = "awaitSecretToProof" /\ inputType = "handleBlock"
         -> TargetAwaitSecretToProofHandleBlock(cx, payload)
    [] OTHER -> cx

(* MessageState.applyMessage: this.stateMachine.handle(this.state, stateChange,
   message) *)
(* machina's handle(client, inputType, payload): the handler of the record's
   current label in the states of the machine. *)
handle(cx, stateMachine, inputType, payload) ==
  IF stateMachine = "Initiator"
    THEN InitiatorStates(cx, inputType, payload)
    ELSE TargetStates(cx, inputType, payload)

applyMessage(ms, stateChange, message) ==
  handle(Start(ms.state), ms.stateMachine, stateChange, message)

----------------------------------------------------------------------------
(* The driver: events as the engine delivers them.  A message event carries a
   message of its kind; 'init' and 'handleBlock' carry the block height. *)

NoEvent == [rid |-> 0, inputType |-> "none"]

NoMessage == [op |-> "none"]

(* Mutant: the label is kept by the machine (as machina.Fsm keeps it), not by
   the record: a move of one record moves every record of that machine. *)
Deliver_shared(r, inputType, payload) ==
  LET ms == recs[r]
      cx == applyMessage(ms, inputType, payload)
      read == \/ inputType = "handleBlock"
              \/ (ms.stateMachine = "Target" /\ ms.state.label = "init"
                    /\ payload.classType = "BN")
  IN  /\ recs' = [k \in DOMAIN recs |->
                   IF k = r THEN [recs[k] EXCEPT !.state = cx.state]
                   ELSE IF recs[k].stateMachine = ms.stateMachine
                     THEN [recs[k] EXCEPT !.state.label = cx.state.label]
                     ELSE recs[k]]
      /\ emitted' = [emitted EXCEPT ![r] = @ \o cx.out]
      /\ lastBlock' = [lastBlock EXCEPT ![r] = IF read THEN payload.value ELSE @]
      /\ last' = [rid |-> r, inputType |-> inputType, payload |-> payload,
                  pre |-> ms.state, out |-> cx.out, threw |-> cx.threw]
      /\ UNCHANGED codec

(* One whole handle() call for record r. *)
Deliver(r, inputType, payload) ==
  LET ms == recs[r]
      cx == applyMessage(ms, inputType, payload)
      read == \/ inputType = "handleBlock"
              \/ (ms.stateMachine = "Target" /\ ms.state.label = "init"
                    /\ payload.classType = "BN")
  IN  /\ recs' = [recs EXCEPT ![r].state = cx.state]
      /\ emitted' = [emitted EXCEPT ![r] = @ \o cx.out]
      /\ lastBlock' = [lastBlock EXCEPT ![r] = IF read THEN payload.value ELSE @]
      /\ last' = [rid |-> r, inputType |-> inputType, payload |-> payload,
                  pre |-> ms.state, out |-> cx.out, threw |-> cx.threw]
      /\ UNCHANGED codec

(* applyMessage('init', currentBlock): the engine's first event for a record;
   nothing stops a later one. *)
InitEvent ==
  \E r \in DOMAIN recs, b \in BlockNumbers : Deliver(r, "init", b)

(* applyMessage('handleBlock', currentBlock) on a block tick *)
HandleBlock ==
  \E r \in DOMAIN recs, b \in BlockNumbers : Deliver(r, "handleBlock", b)

ReceiveRequestSecret ==
  \E r \in DOMAIN recs, m \in RequestSecrets :
    Deliver(r, "receiveRequestSecret", m)

ReceiveRevealSecret ==
  \E r \in DOMAIN recs, m \in RevealSecrets :
    Deliver(r, "receiveRevealSecret", m)

ReceiveSecretToProof ==
  \E r \in DOMAIN recs, m \in SecretToProofs :
    Deliver(r, "receiveSecretToProof", m)

RecordIds == {1}

Init ==
  /\ recs \in [RecordIds ->
                 {MessageState(s, "Initiator") : s \in InitiatorTransferStates}
                   \cup {MessageState(s, "Target") : s \in TargetTransferStates}]
  /\ emitted = [r \in RecordIds |-> <<>>]
  /\ lastBlock = [r \in RecordIds |-> NoBlock]
  /\ last = NoEvent
  /\ codec = NoMessage

Next ==
  \/ InitEvent
  \/ HandleBlock
  \/ ReceiveRequestSecret
  \/ ReceiveRevealSecret
  \/ ReceiveSecretToProof

Spec == Init /\ [][Next]_vars

(* Two records behind one machine, each with values of its own: the engine
   keeps one MessageState per transfer and one machine per role. *)
InitiatorPair ==
  <<MessageState([label |-> "init", signature |-> "D", msgID |-> 1,
                  to |-> "B", target |-> "C", initiator |-> "D",
                  lock |-> [expiration |-> REVEAL_TIMEOUT + 1,
                            hashLock |-> sha3("S")],
                  secret |-> Undefined, revealTo |-> Undefined], "Initiator"),
    MessageState([label |-> "init", signature |-> "D", msgID |-> 2,
                  to |-> "C", target |-> "C", initiator |-> "D",
                  lock |-> [expiration |-> REVEAL_TIMEOUT + 1,
                            hashLock |-> sha3("S")],
                  secret |-> Undefined, revealTo |-> Undefined], "Initiator")>>

TargetPair ==
  <<MessageState([label |-> "init", signature |-> "B", msgID |-> 1,
                  to |-> "A", target |-> "A", initiator |-> "C",
                  lock |-> [expiration |-> MaxExpiration,
                            hashLock |-> sha3("S")],
                  secret |-> Undefined, revealTo |-> Undefined], "Target"),
    MessageState([label |-> "init", signature |-> "B", msgID |-> 1,
                  to |-> "A", target |-> "A", initiator |-> "C",
                  lock |-> [expiration |-> REVEAL_TIMEOUT + 1,
                            hashLock |-> sha3("X")],
                  secret |-> Undefined, revealTo |-> Undefined], "Target")>>

InitPairs ==
  /\ recs \in {InitiatorPair, TargetPair}
  /\ emitted = [r \in DOMAIN recs |-> <<>>]
  /\ lastBlock = [r \in DOMAIN recs |-> NoBlock]
  /\ last = NoEvent
  /\ codec = NoMessage

(* The handle() calls for the two records in any interleaving. *)
SpecPairs == InitPairs /\ [][Next]_vars

(* One whole handle() call for record r while a listener on the machine feeds
   the event it was called for back into handle() for the same record, the
   first `feeds` times it is called. *)
MaxFeeds == 1

DeliverListened(r, inputType, payload, feeds) ==
  LET ms == recs[r]
      listener == Refeed(feeds, ms.stateMachine, inputType, payload)
      cx == handle(Listening(Start(ms.state), listener),
                   ms.stateMachine, inputType, payload)
      read == \/ inputType = "handleBlock"
              \/ (ms.stateMachine = "Target" /\ ms.state.label = "init"
                    /\ payload.classType = "BN")
  IN  /\ recs' = [recs EXCEPT ![r].state = cx.state]
      /\ emitted' = [emitted EXCEPT ![r] = @ \o cx.out]
      /\ lastBlock' = [lastBlock EXCEPT ![r] = IF read THEN payload.value ELSE @]
      /\ last' = [rid |-> r, inputType |-> inputType, payload |-> payload,
                  pre |-> ms.state, out |-> cx.out, threw |-> cx.threw,
                  fed |-> feeds]
      /\ UNCHANGED codec

Refed ==
  \E r \in DOMAIN recs, feeds \in 1..MaxFeeds :
    \/ \E b \in BlockNumbers : DeliverListened(r, "init", b, feeds)
    \/ \E b \in BlockNumbers : DeliverListened(r, "handleBlock", b, feeds)
    \/ \E m \in RequestSecrets :
         DeliverListened(r, "receiveRequestSecret", m, feeds)
    \/ \E m \in RevealSecrets :
         DeliverListened(r, "receiveRevealSecret", m, feeds)
    \/ \E m \in SecretToProofs :
         DeliverListened(r, "receiveSecretToProof", m, feeds)

InitListened ==
  /\ recs \in {<<InitiatorPair[1]>>, <<TargetPair[1]>>, <<TargetPair[2]>>}
  /\ emitted = [r \in DOMAIN recs |-> <<>>]
  /\ lastBlock = [r \in DOMAIN recs |-> NoBlock]
  /\ last = NoEvent
  /\ codec = NoMessage

NextListened ==
  \/ Next
  \/ Refed

(* handle() calls with and without such a listener, in any order. *)
SpecListened == InitListened /\ [][NextListened]_vars

(* A block tick whose height is past the record's expiry margin. *)
ExpiredTick(r) ==
  \E b \in BlockNumbers :
    /\ expired(recs[r].state, b)
    /\ Deliver(r, "handleBlock", b)

(* The engine keeps delivering block ticks, and the chain grows: a tick past
   the margin of a record that has one within reach is eventually delivered. *)
SpecTicks ==
  Init /\ [][Next]_vars /\ \A r \in RecordIds : WF_vars(ExpiredTick(r))

----------------------------------------------------------------------------
(* message.js: the values a message holds.  Every value is a tagged record
   [t, v] with v a sequence, so that a BN, a Buffer, the hex string a BN
   turns into on the wire and a missing property stay distinguishable.
   Buffers are shortened: two bytes stand for 32, one byte for 20. *)

JsUndefined == [t |-> "undefined", v |-> <<>>]
BN(n) == [t |-> "BN", v |-> <<n>>]
Buffer(bytes) == [t |-> "Buffer", v |-> bytes]
JsString(chars) == [t |-> "string", v |-> chars]

EMPTY_32BYTE_BUFFER == Buffer(<<0, 0>>)
EMPTY_20BYTE_BUFFER == Buffer(<<0>>)

(* a || b *)
Truthy(value) == value.t \notin {"undefined", "null"}
Or(a, b) == IF Truthy(a) THEN a ELSE b

(* BN.prototype.toString(16) and new BN(string, 16): the digits of the
   number, most significant first, each digit a number below 16. *)
RECURSIVE toString16(_)
toString16(n) ==
  IF n < 16 THEN <<n>> ELSE Append(toString16(n \div 16), n % 16)

RECURSIVE parseHex(_)
parseHex(digits) ==
  IF digits = <<>> THEN 0
  ELSE parseHex(SubSeq(digits, 1, Len(digits) - 1)) * 16 + digits[Len(digits)]

TO_BN(value) ==
  IF value.t = "BN" THEN value
  ELSE IF value.t = "string" THEN BN(parseHex(value.v))
  ELSE BN(0)

(* JSON.stringify of one property value: BN.toJSON gives the hex string,
   Buffer.toJSON gives {type: 'Buffer', data: [...]}, an undefined property
   is left out. *)
toJSON(value) ==
  IF value.t = "BN" THEN JsString(toString16(value.v[1]))
  ELSE IF value.t = "Buffer" THEN [t |-> "BufferJSON", v |-> value.v]
  ELSE value

JSON_REVIVER_FUNC(value) ==
  IF value.t = "BufferJSON" THEN Buffer(value.v) ELSE value

(* Signatures.  ecsign(hash, key) is kept as the pair it was made from;
   ecrecover gives the signer's public key when handed the hash that was
   signed and some other key when handed another hash. *)
PrivateKeys == {"k1", "k2"}
NullSignature == [t |-> "null", key |-> "none", digest |-> <<>>]
NoSignature == [t |-> "undefined", key |-> "none", digest |-> <<>>]
ecsign(hash, privateKey) == [t |-> "Signature", key |-> privateKey, digest |-> hash]
privateToPublic(privateKey) == <<"publicKey", privateKey>>
ecrecover(hash, signature) ==
  IF hash = signature.digest THEN privateToPublic(signature.key)
  ELSE <<"publicKey", "another">>
pubToAddress(pk) == <<"address", pk>>
privateToAddress(privateKey) == pubToAddress(privateToPublic(privateKey))

(* r and s of a signature are Buffers: they cross the wire as Buffers do. *)
signatureToJSON(signature) ==
  IF signature.t = "Signature" THEN [signature EXCEPT !.t = "SignatureJSON"]
  ELSE signature

reviveSignature(signature) ==
  IF signature.t = "SignatureJSON" THEN [signature EXCEPT !.t = "Signature"]
  ELSE signature

(* soliditySHA3(types, values): keccak256 of the fixed-width packing. *)
soliditySHA3(values) == sha3(values)

(* Outcome of a call that may throw. *)
Returns(value) == [threw |-> "", v |-> value]
Throws(error) == [threw |-> error, v |-> <<>>]

----------------------------------------------------------------------------
(* message.js: objects.  An object (a message, or the plain object that
   JSON.parse gives, or the options of a constructor) is a record
   [kind, classType, signature, f, lock]: kind is its class, classType its
   own classType property, f its other own properties, lock its nested
   lock. *)

NoClassType == "(absent)"

NoFields ==
  [nonce |-> JsUndefined, transferredAmount |-> JsUndefined,
   locksRoot |-> JsUndefined, channelAddress |-> JsUndefined,
   messageHash |-> JsUndefined, msgID |-> JsUndefined, to |-> JsUndefined,
   target |-> JsUndefined, initiator |-> JsUndefined,
   hashLock |-> JsUndefined, amount |-> JsUndefined,
   expiration |-> JsUndefined, secret |-> JsUndefined]

NoLock ==
  [t |-> "undefined", amount |-> JsUndefined, expiration |-> JsUndefined,
   hashLock |-> JsUndefined]

Blank(kind) ==
  [kind |-> kind, classType |-> NoClassType, signature |-> NoSignature,
   f |-> NoFields, lock |-> NoLock]

SignedMessage(this, options) ==
  [this EXCEPT !.classType = this.kind,
               !.signature = Or(options.signature, NullSignature)]

Proof(this, options) ==
  [SignedMessage(this, options) EXCEPT
     !.f.nonce = Or(TO_BN(options.f.nonce), BN(0)),
     !.f.transferredAmount = Or(TO_BN(options.f.transferredAmount), BN(0)),
     !.f.locksRoot = Or(options.f.locksRoot, EMPTY_32BYTE_BUFFER),
     !.f.channelAddress = Or(options.f.channelAddress, EMPTY_20BYTE_BUFFER),
     !.f.messageHash = Or(options.f.messageHash, EMPTY_32BYTE_BUFFER),
     !.signature = Or(options.signature, NullSignature)]

ProofMessage(this, options) ==
  [SignedMessage(this, options) EXCEPT
     !.f.nonce = Or(TO_BN(options.f.nonce), BN(0)),
     !.f.transferredAmount = Or(TO_BN(options.f.transferredAmount), BN(0)),
     !.f.locksRoot = Or(options.f.locksRoot, EMPTY_32BYTE_BUFFER),
     !.f.channelAddress = Or(options.f.channelAddress, EMPTY_20BYTE_BUFFER),
     !.f.messageHash = Or(options.f.messageHash, EMPTY_32BYTE_BUFFER),
     !.signature = Or(options.signature, NullSignature)]

(* new Lock(options), for the nested lock of a transfer... *)
NestedLock(options) ==
  [t |-> "Lock",
   amount |-> Or(TO_BN(options.amount), BN(0)),
   expiration |-> Or(TO_BN(options.expiration), BN(0)),
   hashLock |-> Or(options.hashLock, EMPTY_32BYTE_BUFFER)]

(* ... and as an object of its own. *)
Lock(this, options) ==
  [this EXCEPT
     !.f.amount = Or(TO_BN(options.f.amount), BN(0)),
     !.f.expiration = Or(TO_BN(options.f.expiration), BN(0)),
     !.f.hashLock = Or(options.f.hashLock, EMPTY_32BYTE_BUFFER)]

OpenLock(this, lock, secret) ==
  [Lock(this, lock) EXCEPT !.f.secret = secret]

DirectTransfer(this, options) ==
  [ProofMessage(this, options) EXCEPT
     !.f.msgID = Or(TO_BN(options.f.msgID), BN(0)),
     !.f.to = Or(options.f.to, EMPTY_20BYTE_BUFFER)]

(* With no options.lock the constructor sets options.lock, not this.lock:
   the message is left without a lock. *)
LockedTransfer(this, options) ==
  LET d == DirectTransfer(this, options)
  IN  IF options.lock.t = "undefined" THEN d
      ELSE IF options.lock.t = "Lock" THEN [d EXCEPT !.lock = options.lock]
      ELSE [d EXCEPT !.lock = NestedLock(options.lock)]

MediatedTransfer(this, options) ==
  [LockedTransfer(this, options) EXCEPT
     !.f.target = Or(options.f.target, EMPTY_20BYTE_BUFFER),
     !.f.initiator = Or(options.f.initiator, EMPTY_20BYTE_BUFFER)]

RequestSecret(this, options) ==
  [SignedMessage(this, options) EXCEPT
     !.f.msgID = Or(TO_BN(options.f.msgID), BN(0)),
     !.f.to = Or(options.f.to, EMPTY_20BYTE_BUFFER),
     !.f.hashLock = Or(options.f.hashLock, EMPTY_32BYTE_BUFFER),
     !.f.amount = Or(TO_BN(options.f.amount), BN(0))]

RevealSecret(this, options) ==
  [SignedMessage(this, options) EXCEPT
     !.f.secret = Or(options.f.secret, EMPTY_32BYTE_BUFFER),
     !.f.to = Or(options.f.to, EMPTY_20BYTE_BUFFER)]

SecretToProof(this, options) ==
  [ProofMessage(this, options) EXCEPT
     !.f.msgID = Or(TO_BN(options.f.msgID), BN(0)),
     !.f.to = Or(options.f.to, EMPTY_20BYTE_BUFFER),
     !.f.secret = Or(options.f.secret, EMPTY_32BYTE_BUFFER)]

Ack(this, options) ==
  [this EXCEPT
     !.f.to = Or(options.f.to, EMPTY_20BYTE_BUFFER),
     !.f.messageHash = Or(options.f.messageHash, EMPTY_32BYTE_BUFFER),
     !.f.msgID = Or(options.f.msgID, BN(0))]

SignedKinds ==
  {"SignedMessage", "Proof", "ProofMessage", "DirectTransfer",
   "LockedTransfer", "MediatedTransfer", "RequestSecret", "RevealSecret",
   "SecretToProof"}

Kinds == SignedKinds \cup {"Lock", "OpenLock", "Ack"}

----------------------------------------------------------------------------
(* message.js: hashes, sign and the `from` getter. *)

Proof_getHash(m) ==
  Returns(soliditySHA3(<<m.f.nonce, m.f.transferredAmount, m.f.channelAddress,
                         m.f.locksRoot, m.f.messageHash>>))

Lock_getMessageHash(lock) ==
  IF lock.t = "undefined" THEN Throws("TypeError")
  ELSE Returns(soliditySHA3(<<lock.amount, lock.expiration, lock.hashLock>>))

DirectTransfer_getMessageHash(m) ==
  Returns(soliditySHA3(<<m.f.msgID, m.f.nonce, m.f.transferredAmount,
                         m.f.channelAddress, m.f.locksRoot, m.f.to>>))

LockedTransfer_getMessageHash(m) ==
  LET l == Lock_getMessageHash(m.lock)
  IN  IF l.threw # "" THEN l
      ELSE Returns(soliditySHA3(<<m.f.msgID, m.f.nonce, m.f.transferredAmount,
                                  m.f.channelAddress, m.f.locksRoot, m.f.to,
                                  l.v>>))

MediatedTransfer_getMessageHash(m) ==
  LET l == Lock_getMessageHash(m.lock)
  IN  IF l.threw # "" THEN l
      ELSE Returns(soliditySHA3(<<m.f.msgID, m.f.nonce, m.f.transferredAmount,
                                  m.f.channelAddress, m.f.locksRoot, m.f.to,
                                  m.f.target, m.f.initiator, l.v>>))

SecretToProof_getMessageHash(m) ==
  Returns(soliditySHA3(<<m.f.msgID, m.f.nonce, m.f.transferredAmount,
                         m.f.channelAddress, m.f.locksRoot, m.f.to,
                         m.f.secret>>))

getMessageHash(m) ==
  CASE m.kind = "DirectTransfer" -> DirectTransfer_getMessageHash(m)
    [] m.kind = "LockedTransfer" -> LockedTransfer_getMessageHash(m)
    [] m.kind = "MediatedTransfer" -> MediatedTransfer_getMessageHash(m)
    [] m.kind = "SecretToProof" -> SecretToProof_getMessageHash(m)
    [] OTHER -> Throws("unimplemented getMessageHash")

ProofMessage_getHash(m) ==
  LET h == getMessageHash(m)
  IN  IF h.threw # "" THEN h
      ELSE Returns(soliditySHA3(<<m.f.nonce, m.f.transferredAmount,
                                  m.f.channelAddress, m.f.locksRoot, h.v>>))

(* Mutant: the amount is left out of the pre-image. *)
RequestSecret_getHash_noAmount(m) ==
  Returns(soliditySHA3(<<m.f.msgID, m.f.to, m.f.hashLock>>))

RequestSecret_getHash(m) ==
  Returns(soliditySHA3(<<m.f.msgID, m.f.to, m.f.hashLock, m.f.amount>>))

RevealSecret_getHash(m) ==
  Returns(soliditySHA3(<<m.f.secret, m.f.to>>))

getHash(m) ==
  CASE m.kind = "Proof" -> Proof_getHash(m)
    [] m.kind \in {"ProofMessage", "DirectTransfer", "LockedTransfer",
                   "MediatedTransfer", "SecretToProof"} -> ProofMessage_getHash(m)
    [] m.kind = "RequestSecret" -> RequestSecret_getHash(m)
    [] m.kind = "RevealSecret" -> RevealSecret_getHash(m)
    [] OTHER -> Throws("unimplemented getHash()")

(* Mutant: an existing signature is kept. *)
sign_keep(m, privateKey) ==
  LET buffer == getHash(m)
  IN  IF buffer.threw # "" THEN [threw |-> buffer.threw, v |-> m]
      ELSE Returns([m EXCEPT !.signature =
                      Or(m.signature, ecsign(buffer.v, privateKey))])

sign(m, privateKey) ==
  LET buffer == getHash(m)
  IN  IF buffer.threw # "" THEN [threw |-> buffer.threw, v |-> m]
      ELSE Returns([m EXCEPT !.signature = ecsign(buffer.v, privateKey)])

recoverAddress(m) ==
  LET buffer == getHash(m)
  IN  IF buffer.threw # "" THEN buffer
      ELSE Returns(pubToAddress(ecrecover(buffer.v, m.signature)))

UnsignedError == "no signature to recover address from"

SignedMessage_from(m) ==
  IF ~Truthy(m.signature) THEN Throws(UnsignedError)
  ELSE recoverAddress(m)

----------------------------------------------------------------------------
(* message.js: the wire.  The JSON text is kept as the tree JSON.parse
   reads from it before the reviver is applied. *)

SERIALIZE(m) ==
  [kind |-> "Object",
   classType |-> m.classType,
   signature |-> signatureToJSON(m.signature),
   f |-> [x \in DOMAIN m.f |-> toJSON(m.f[x])],
   lock |-> IF m.lock.t = "undefined" THEN m.lock
            ELSE [t |-> "Object",
                  amount |-> toJSON(m.lock.amount),
                  expiration |-> toJSON(m.lock.expiration),
                  hashLock |-> toJSON(m.lock.hashLock)]]

DESERIALIZE(data) ==
  [data EXCEPT
     !.signature = reviveSignature(@),
     !.f = [x \in DOMAIN @ |-> JSON_REVIVER_FUNC(@[x])],
     !.lock = [@ EXCEPT !.amount = JSON_REVIVER_FUNC(@),
                        !.expiration = JSON_REVIVER_FUNC(@),
                        !.hashLock = JSON_REVIVER_FUNC(@)]]

(* Mutant: an unknown classType is read as the base class. *)
DESERIALIZE_AND_DECODE_MESSAGE_lenient(data) ==
  LET jsonObj == DESERIALIZE(data)
      c == jsonObj.classType
  IN  IF c # NoClassType
      THEN CASE c = "Proof" -> Returns(Proof(Blank("Proof"), jsonObj))
             [] c = "ProofMessage" -> Returns(ProofMessage(Blank("ProofMessage"), jsonObj))
             [] c = "Lock" -> Returns(Lock(Blank("Lock"), jsonObj))
             [] c = "OpenLock" -> Returns(OpenLock(Blank("OpenLock"), jsonObj, JsUndefined))
             [] c = "DirectTransfer" -> Returns(DirectTransfer(Blank("DirectTransfer"), jsonObj))
             [] c = "LockedTransfer" -> Returns(LockedTransfer(Blank("LockedTransfer"), jsonObj))
             [] c = "MediatedTransfer" -> Returns(MediatedTransfer(Blank("MediatedTransfer"), jsonObj))
             [] c = "RequestSecret" -> Returns(RequestSecret(Blank("RequestSecret"), jsonObj))
             [] c = "RevealSecret" -> Returns(RevealSecret(Blank("RevealSecret"), jsonObj))
             [] c = "SecretToProof" -> Returns(SecretToProof(Blank("SecretToProof"), jsonObj))
             [] c = "Ack" -> Returns(Ack(Blank("Ack"), jsonObj))
             [] OTHER -> Returns(SignedMessage(Blank("SignedMessage"), jsonObj))
      ELSE Throws("Invalid Message: not a recoginized GOT message type")

DESERIALIZE_AND_DECODE_MESSAGE(data) ==
  LET jsonObj == DESERIALIZE(data)
      c == jsonObj.classType
  IN  IF c # NoClassType
      THEN CASE c = "SignedMessage" -> Returns(SignedMessage(Blank("SignedMessage"), jsonObj))
             [] c = "Proof" -> Returns(Proof(Blank("Proof"), jsonObj))
             [] c = "ProofMessage" -> Returns(ProofMessage(Blank("ProofMessage"), jsonObj))
             [] c = "Lock" -> Returns(Lock(Blank("Lock"), jsonObj))
             [] c = "OpenLock" -> Returns(OpenLock(Blank("OpenLock"), jsonObj, JsUndefined))
             [] c = "DirectTransfer" -> Returns(DirectTransfer(Blank("DirectTransfer"), jsonObj))
             [] c = "LockedTransfer" -> Returns(LockedTransfer(Blank("LockedTransfer"), jsonObj))
             [] c = "MediatedTransfer" -> Returns(MediatedTransfer(Blank("MediatedTransfer"), jsonObj))
             [] c = "RequestSecret" -> Returns(RequestSecret(Blank("RequestSecret"), jsonObj))
             [] c = "RevealSecret" -> Returns(RevealSecret(Blank("RevealSecret"), jsonObj))
             [] c = "SecretToProof" -> Returns(SecretToProof(Blank("SecretToProof"), jsonObj))
             [] c = "Ack" -> Returns(Ack(Blank("Ack"), jsonObj))
             [] OTHER -> Throws("Invalid Message: unknown classType")
      ELSE Throws("Invalid Message: not a recoginized GOT message type")

----------------------------------------------------------------------------
(* The driver of the message layer: one message is constructed, then signed,
   has a property assigned, goes over the wire and back, or its wire form
   arrives under some classType, in any order. *)

EmptyOptions == Blank("Object")

FullOptions ==
  [kind |-> "Object", classType |-> NoClassType, signature |-> NoSignature,
   f |-> [nonce |-> BN(17), transferredAmount |-> BN(100),
          locksRoot |-> Buffer(<<7, 7>>), channelAddress |-> Buffer(<<170>>),
          messageHash |-> Buffer(<<9, 9>>), msgID |-> BN(1),
          to |-> Buffer(<<187>>), target |-> Buffer(<<204>>),
          initiator |-> Buffer(<<221>>), hashLock |-> Buffer(<<5, 5>>),
          amount |-> BN(50), expiration |-> BN(1000),
          secret |-> Buffer(<<83, 83>>)],
   lock |-> [t |-> "Lock", amount |-> BN(50), expiration |-> BN(1000),
             hashLock |-> Buffer(<<5, 5>>)]]

Construct(kind, options) ==
  CASE kind = "SignedMessage" -> SignedMessage(Blank(kind), options)
    [] kind = "Proof" -> Proof(Blank(kind), options)
    [] kind = "ProofMessage" -> ProofMessage(Blank(kind), options)
    [] kind = "Lock" -> Lock(Blank(kind), options)
    [] kind = "OpenLock" -> OpenLock(Blank(kind), options, options.f.secret)
    [] kind = "DirectTransfer" -> DirectTransfer(Blank(kind), options)
    [] kind = "LockedTransfer" -> LockedTransfer(Blank(kind), options)
    [] kind = "MediatedTransfer" -> MediatedTransfer(Blank(kind), options)
    [] kind = "RequestSecret" -> RequestSecret(Blank(kind), options)
    [] kind = "RevealSecret" -> RevealSecret(Blank(kind), options)
    [] kind = "SecretToProof" -> SecretToProof(Blank(kind), options)
    [] kind = "Ack" -> Ack(Blank(kind), options)

Paths == DOMAIN NoFields \cup {"lock.amount", "lock.expiration", "lock.hashLock"}

Get(m, path) ==
  CASE path = "lock.amount" -> m.lock.amount
    [] path = "lock.expiration" -> m.lock.expiration
    [] path = "lock.hashLock" -> m.lock.hashLock
    [] OTHER -> m.f[path]

Set(m, path, value) ==
  CASE path = "lock.amount" -> [m EXCEPT !.lock.amount = value]
    [] path = "lock.expiration" -> [m EXCEPT !.lock.expiration = value]
    [] path = "lock.hashLock" -> [m EXCEPT !.lock.hashLock = value]
    [] OTHER -> [m EXCEPT !.f[path] = value]

(* Another value of the same type. *)
Another(value) ==
  IF value.t = "BN" THEN BN(value.v[1] + 16)
  ELSE Buffer([value.v EXCEPT ![1] = (@ + 1) % 256])

ClassTypesOnWire == Kinds \cup {"Transfer", NoClassType}

Fresh(m) ==
  [m |-> m, op |-> "new", arg |-> "", pre |-> m, res |-> Returns(m),
   signedAs |-> m, changed |-> "none"]

InitCodec ==
  /\ recs = <<>>
  /\ emitted = <<>>
  /\ lastBlock = <<>>
  /\ last = NoEvent
  /\ \E kind \in Kinds, options \in {EmptyOptions, FullOptions} :
       codec = Fresh(Construct(kind, options))

Sign ==
  \E privateKey \in PrivateKeys :
    LET r == sign(codec.m, privateKey)
    IN  /\ codec.op # "none"
        /\ codec.m.kind \in SignedKinds
        /\ codec' = [codec EXCEPT !.m = r.v, !.op = "sign", !.arg = privateKey,
                                  !.pre = codec.m, !.res = r,
                                  !.signedAs = IF r.threw = "" THEN r.v ELSE @]
        /\ UNCHANGED <<recs, emitted, lastBlock, last>>

SetField ==
  \E path \in Paths :
    LET m == Set(codec.m, path, Another(Get(codec.m, path)))
    IN  /\ codec.op # "none"
        /\ codec.changed = "none"
        /\ Get(codec.m, path).t \in {"BN", "Buffer"}
        /\ codec' = [codec EXCEPT !.m = m, !.op = "set", !.arg = path,
                                  !.pre = codec.m, !.res = Returns(m),
                                  !.changed = path]
        /\ UNCHANGED <<recs, emitted, lastBlock, last>>

RoundTrip ==
  LET r == DESERIALIZE_AND_DECODE_MESSAGE(SERIALIZE(codec.m))
  IN  /\ codec.op # "none"
      /\ codec' = [codec EXCEPT !.m = IF r.threw = "" THEN r.v ELSE @,
                                !.op = "roundtrip", !.arg = "",
                                !.pre = codec.m, !.res = r]
      /\ UNCHANGED <<recs, emitted, lastBlock, last>>

Receive ==
  \E c \in ClassTypesOnWire :
    LET r == DESERIALIZE_AND_DECODE_MESSAGE(
               [SERIALIZE(codec.m) EXCEPT !.classType = c])
    IN  /\ codec.op # "none"
        /\ codec' = [codec EXCEPT !.op = "receive", !.arg = c,
                                  !.pre = codec.m, !.res = r]
        /\ UNCHANGED <<recs, emitted, lastBlock, last>>

NextCodec ==
  \/ Sign
  \/ SetField
  \/ RoundTrip
  \/ Receive

SpecCodec == InitCodec /\ [][NextCodec]_vars

----------------------------------------------------------------------------
(* Vocabulary of the properties: the latest handle() call and its record. *)

Handled == last.rid \in DOMAIN recs

Machine == recs[last.rid].stateMachine

Pre == last.pre

Post == recs[last.rid].state

Names(seq) == [i \in DOMAIN seq |-> seq[i].event]

NothingHappened == Post = Pre /\ last.out = <<>>

(* The side-effects emitted for the record before the latest call. *)
EmittedBefore ==
  SubSeq(emitted[last.rid], 1, Len(emitted[last.rid]) - Len(last.out))

IsMessage == last.payload.classType # "BN"

Sender == IF isSigned(last.payload) THEN from(last.payload) ELSE Undefined

----------------------------------------------------------------------------
ScenarioRecord(r) ==
  /\ recs[r].stateMachine = "Initiator"
  /\ recs[r].state.msgID = 1
  /\ recs[r].state.to = "B"
  /\ recs[r].state.target = "C"
  /\ recs[r].state.lock.hashLock = sha3("S")

ScenarioRun == <<"sendMediatedTransfer", "sendRevealSecret", "sendSecretToProof">>

(* C1: the end-to-end Initiator run.  A record with msgID = 1, to = B,
   target = C and lock.hashLock = hash(S) leaves init on its first event of
   any kind emitting sendMediatedTransfer, leaves awaitRequestSecret on the
   RequestSecret of C for hash(S) and msgID 1 emitting sendRevealSecret, and
   leaves awaitRevealSecret on the RevealSecret of B with secret S emitting
   sendSecretToProof; what it has emitted is at every label exactly the
   prefix of these three that leads there. *)
C1_EndToEndInitiator ==
  \A r \in DOMAIN recs : ScenarioRecord(r) =>
    /\ recs[r].state.label = "init" => emitted[r] = <<>>
    /\ recs[r].state.label = "awaitRequestSecret"
         => Names(emitted[r]) = SubSeq(ScenarioRun, 1, 1)
    /\ recs[r].state.label = "awaitRevealSecret"
         => Names(emitted[r]) = SubSeq(ScenarioRun, 1, 2)
    /\ recs[r].state.label = "completedTransfer"
         => Names(emitted[r]) = ScenarioRun
    /\ recs[r].state.label \in
         {"init", "awaitRequestSecret", "awaitRevealSecret", "completedTransfer"}
    /\ (last.rid = r /\ Pre.label = "init")
         => Post.label = "awaitRequestSecret"
    /\ (/\ last.rid = r /\ Pre.label = "awaitRequestSecret"
        /\ last.inputType = "receiveRequestSecret"
        /\ last.payload.signature = "C"
        /\ last.payload.hashLock = sha3("S")
        /\ last.payload.msgID = 1)
         => Post.label = "awaitRevealSecret"
    /\ (/\ last.rid = r /\ Pre.label = "awaitRevealSecret"
        /\ last.inputType = "receiveRevealSecret"
        /\ last.payload.signature = "B"
        /\ last.payload.secret = "S")
         => Post.label = "completedTransfer"

C1_Witness ==
  /\ Handled
  /\ ScenarioRecord(last.rid)
  /\ Pre.label = "awaitRevealSecret"
  /\ last.inputType = "receiveRevealSecret"
  /\ last.payload.signature = "B"
  /\ last.payload.secret = "S"
  /\ Post.label = "completedTransfer"
  /\ Names(emitted[last.rid]) = ScenarioRun

----------------------------------------------------------------------------
RequestSecretMatches ==
  /\ Sender = Pre.target
  /\ last.payload.hashLock = Pre.lock.hashLock
  /\ last.payload.msgID = Pre.msgID

C2_Case ==
  /\ Handled
  /\ Machine = "Initiator"
  /\ Pre.label = "awaitRequestSecret"
  /\ last.inputType = "receiveRequestSecret"

(* C2: an Initiator in awaitRequestSecret, on receiveRequestSecret(rs), moves
   to awaitRevealSecret and emits sendRevealSecret with revealTo = target if
   and only if rs.sender = target, rs.hashLock = lock.hashLock and
   rs.msgID = msgID; otherwise the label stays and nothing is emitted. *)
C2_RequestSecretIff ==
  C2_Case =>
    IF RequestSecretMatches
      THEN /\ Post = [Pre EXCEPT !.label = "awaitRevealSecret",
                                 !.revealTo = Pre.target]
           /\ last.out = <<[event |-> "sendRevealSecret",
                            label |-> "awaitRequestSecret",
                            secret |-> Pre.secret,
                            revealTo |-> Pre.target]>>
      ELSE /\ Post.label = "awaitRequestSecret"
           /\ last.out = <<>>

C2_Witness ==
  /\ C2_Case
  /\ RequestSecretMatches
  /\ Post.label = "awaitRevealSecret"
  /\ Post.revealTo = Pre.target

----------------------------------------------------------------------------
WrongSecretReveal ==
  /\ Handled
  /\ last.inputType = "receiveRevealSecret"
  /\ sha3(last.payload.secret) # Pre.lock.hashLock

(* C3 as stated: in every reachable state a receiveRevealSecret whose secret
   does not hash to lock.hashLock leaves the record unchanged and emits
   nothing.  (An Initiator still in init takes it as its first event.) *)
C3_Original_WrongSecretAlwaysIgnored ==
  WrongSecretReveal => NothingHappened

RevealDependentMove ==
  /\ Handled
  /\ Pre.label = "awaitRevealSecret"
  /\ \/ Machine = "Initiator" /\ Post.label = "completedTransfer"
     \/ Machine = "Target" /\ Post.label = "awaitSecretToProof"

(* C3, amended: a receiveRevealSecret whose secret does not hash to
   lock.hashLock, whoever sent it, leaves the record's label and fields
   unchanged and emits nothing in every state except an Initiator's init,
   whose catch-all handler takes it as the first event; and the Initiator
   move awaitRevealSecret -> completedTransfer and the Target move
   awaitRevealSecret -> awaitSecretToProof happen only on a receiveRevealSecret
   with hash(secret) = lock.hashLock. *)
C3_SecretHashLockConsistency ==
  /\ (WrongSecretReveal /\ ~(Machine = "Initiator" /\ Pre.label = "init"))
       => NothingHappened
  /\ (WrongSecretReveal /\ Machine = "Initiator" /\ Pre.label = "init")
       => Post = [Pre EXCEPT !.label = "awaitRequestSecret"]
  /\ RevealDependentMove
       => /\ last.inputType = "receiveRevealSecret"
          /\ sha3(last.payload.secret) = Pre.lock.hashLock

C3_Witness ==
  /\ WrongSecretReveal
  /\ Pre.label = "awaitRevealSecret"
  /\ isSigned(last.payload)
  /\ \/ Machine = "Initiator" /\ Sender = Pre.to
     \/ Machine = "Target" /\ Sender = Pre.initiator
  /\ NothingHappened

----------------------------------------------------------------------------
MessageDrivenMove ==
  /\ Handled
  /\ IsMessage
  /\ Post.label # Pre.label
  /\ \/ /\ Machine = "Initiator"
        /\ Pre.label \in {"awaitRequestSecret", "awaitRevealSecret"}
     \/ /\ Machine = "Target"
        /\ Pre.label \in {"awaitRevealSecret", "awaitSecretToProof"}

(* The message event meets the state that has a handler for it. *)
MessageMeetsHandler ==
  /\ Handled
  /\ \/ /\ Machine = "Initiator" /\ Pre.label = "awaitRequestSecret"
        /\ last.inputType = "receiveRequestSecret"
     \/ /\ Machine = "Initiator" /\ Pre.label = "awaitRevealSecret"
        /\ last.inputType = "receiveRevealSecret"
     \/ /\ Machine = "Target" /\ Pre.label = "awaitRevealSecret"
        /\ last.inputType = "receiveRevealSecret"
     \/ /\ Machine = "Target" /\ Pre.label = "awaitSecretToProof"
        /\ last.inputType = "receiveSecretToProof"

MsgIDOf(m) == IF m.classType = "RevealSecret" THEN Pre.msgID ELSE m.msgID

HashLockOf(m) ==
  IF m.classType = "RequestSecret" THEN m.hashLock ELSE hashLockOf(m)

RelevantParty ==
  CASE Machine = "Initiator" /\ Pre.label = "awaitRequestSecret" -> Pre.target
    [] Machine = "Initiator" /\ Pre.label = "awaitRevealSecret" -> Pre.to
    [] Machine = "Target" /\ Pre.label = "awaitRevealSecret" -> Pre.initiator
    [] OTHER -> from(Pre)

ExactIdentity ==
  /\ MsgIDOf(last.payload) = Pre.msgID
  /\ HashLockOf(last.payload) = Pre.lock.hashLock
  /\ Sender = RelevantParty

(* C4 as stated: each message-driven transition is taken only for a message
   that matches the record in msgID, hashLock and the relevant party address
   (a RevealSecret carries no msgID), and a message that differs in one of
   them causes no transition and no error.  Stated for signed messages, the
   ones that have a sender to compare. *)
C4_Original_ExactIdentity ==
  /\ MessageDrivenMove => ExactIdentity
  /\ (MessageMeetsHandler /\ isSigned(last.payload) /\ ~ExactIdentity)
       => (NothingHappened /\ ~last.threw)

ComparedFieldsMatch ==
  CASE last.inputType = "receiveRequestSecret" ->
         /\ Sender = Pre.target
         /\ last.payload.hashLock = Pre.lock.hashLock
         /\ last.payload.msgID = Pre.msgID
    [] last.inputType = "receiveRevealSecret" ->
         /\ Sender = RelevantParty
         /\ hashLockOf(last.payload) = Pre.lock.hashLock
    [] last.inputType = "receiveSecretToProof" ->
         Sender = from(Pre)
    [] OTHER -> FALSE

(* C4, amended: each message-driven transition is taken only for a message
   that matches the record in every field its handler compares: sender =
   target, hashLock and msgID for the Initiator's receiveRequestSecret;
   sender = to and hash(secret) = hashLock for the Initiator's
   receiveRevealSecret; sender = initiator and hash(secret) = hashLock for the
   Target's receiveRevealSecret; the sender = from alone for the Target's
   receiveSecretToProof, whose msgID and secret are not compared.  A signed
   message that differs from the record in a compared field causes no
   transition, no emission and no error. *)
C4_ComparedFieldsIdentity ==
  /\ MessageDrivenMove => (MessageMeetsHandler /\ ComparedFieldsMatch)
  /\ (MessageMeetsHandler /\ isSigned(last.payload) /\ ~ComparedFieldsMatch)
       => (NothingHappened /\ ~last.threw)

C4_Witness ==
  /\ MessageDrivenMove
  /\ last.inputType = "receiveSecretToProof"
  /\ last.payload.msgID # Pre.msgID
  /\ hashLockOf(last.payload) # Pre.lock.hashLock
  /\ Post.label = "completedTransfer"

----------------------------------------------------------------------------
LabelMoved == Post.label # Pre.label

(* C5 as stated: every handle() call emits exactly one side-effect and changes
   the label exactly once, or does neither; no label changes without an
   emission and nothing is emitted without a change of label. *)
C5_Original_EmitIffMove ==
  Handled => /\ Len(last.out) <= 1
             /\ LabelMoved <=> Len(last.out) = 1

BlockExpires == ~IsMessage /\ expired(Pre, last.payload)

SilentExpiry ==
  /\ Handled
  /\ Machine = "Target"
  /\ BlockExpires
  /\ \/ Pre.label = "init"
     \/ Pre.label = "awaitRevealSecret" /\ last.inputType = "handleBlock"

Accepted ==
  /\ Handled
  /\ \/ Machine = "Initiator" /\ Pre.label = "init"
     \/ Machine = "Target" /\ Pre.label = "init" /\ ~IsMessage
     \/ MessageMeetsHandler /\ ComparedFieldsMatch
     \/ /\ Machine = "Target"
        /\ Pre.label \in {"awaitRevealSecret", "awaitSecretToProof"}
        /\ last.inputType = "handleBlock"
        /\ BlockExpires

(* C5, amended: every handle() call emits at most one side-effect and changes
   the label at most once.  An event its state accepts causes exactly one
   emission and one change of label, except the Target's two expiry moves to
   expiredTransfer (the first event at init, and handleBlock in
   awaitRevealSecret, with lock.expiration <= currentBlock + RevealTimeout),
   which change the label and emit nothing.  An event its state does not
   accept causes neither.  Nothing is ever emitted without a change of
   label. *)
C5_OneTransitionPerAcceptedEvent ==
  Handled =>
    /\ Len(last.out) <= 1
    /\ Len(last.out) = 1 => LabelMoved
    /\ (Accepted /\ ~SilentExpiry) => (Len(last.out) = 1 /\ LabelMoved)
    /\ SilentExpiry
         => (last.out = <<>> /\ Post = [Pre EXCEPT !.label = "expiredTransfer"])
    /\ ~Accepted => NothingHappened

C5_Witness ==
  /\ SilentExpiry
  /\ Pre.label = "awaitRevealSecret"
  /\ Post.label = "expiredTransfer"
  /\ last.out = <<>>

----------------------------------------------------------------------------
Count(seq, name) == Cardinality({i \in DOMAIN seq : seq[i].event = name})

RequestSecretReplayed ==
  /\ Handled
  /\ Machine = "Initiator"
  /\ last.inputType = "receiveRequestSecret"
  /\ Count(EmittedBefore, "sendRevealSecret") > 0

(* C6: Initiator idempotence.  Once a RequestSecret has been accepted (the
   record has emitted sendRevealSecret), a receiveRequestSecret, the accepted
   one again included, causes no transition and no emission in any later
   state, so sendRevealSecret is emitted once. *)
C6_InitiatorIdempotence ==
  /\ RequestSecretReplayed => (NothingHappened /\ ~last.threw)
  /\ \A r \in DOMAIN recs :
       recs[r].stateMachine = "Initiator"
         => Count(emitted[r], "sendRevealSecret") <= 1

C6_Witness ==
  /\ RequestSecretReplayed
  /\ RequestSecretMatches
  /\ Pre.label = "awaitRevealSecret"
  /\ NothingHappened
  /\ Count(emitted[last.rid], "sendRevealSecret") = 1

----------------------------------------------------------------------------
TargetFirstEvent ==
  /\ Handled
  /\ Machine = "Target"
  /\ Pre.label = "init"
  /\ ~IsMessage

(* C7: a Target at init, on its first event carrying block height h, moves to
   expiredTransfer emitting nothing when lock.expiration <= h + RevealTimeout,
   and otherwise emits sendRequestSecret once and moves to awaitRevealSecret. *)
C7_TargetTimeoutAtInit ==
  TargetFirstEvent =>
    IF Pre.lock.expiration <= last.payload.value + REVEAL_TIMEOUT
      THEN /\ Post = [Pre EXCEPT !.label = "expiredTransfer"]
           /\ last.out = <<>>
           /\ emitted[last.rid] = <<>>
      ELSE /\ Post = [Pre EXCEPT !.label = "awaitRevealSecret"]
           /\ Names(last.out) = <<"sendRequestSecret">>
           /\ Names(emitted[last.rid]) = <<"sendRequestSecret">>

C7_Witness ==
  /\ TargetFirstEvent
  /\ Pre.lock.expiration = last.payload.value + REVEAL_TIMEOUT
  /\ last.payload.value > 0
  /\ Post.label = "expiredTransfer"
  /\ emitted[last.rid] = <<>>

----------------------------------------------------------------------------
LockActing == {"sendRequestSecret", "sendRevealSecret"}

TargetActsOnLock ==
  /\ Handled
  /\ Machine = "Target"
  /\ \E i \in DOMAIN last.out : last.out[i].event \in LockActing

(* C8: the lock safety margin.  Whenever a Target record emits
   sendRequestSecret or sendRevealSecret, the latest block height handed to
   the record satisfies currentBlock + RevealTimeout < lock.expiration. *)
C8_LockSafetyMargin ==
  TargetActsOnLock =>
    /\ lastBlock[last.rid] # NoBlock
    /\ lastBlock[last.rid] + REVEAL_TIMEOUT < Post.lock.expiration

C8_Witness ==
  /\ TargetActsOnLock
  /\ Names(last.out) = <<"sendRevealSecret">>
  /\ lastBlock[last.rid] > 0
  /\ lastBlock[last.rid] + REVEAL_TIMEOUT + 1 = Post.lock.expiration

----------------------------------------------------------------------------
AfterTerminal == Handled /\ Pre.label \in TerminalLabels

(* C9: terminal labels are absorbing.  A record of either role whose label is
   completedTransfer, failedTransfer or expiredTransfer keeps its label and
   fields and emits nothing on every later event of every kind. *)
C9_TerminalAbsorbing ==
  AfterTerminal => (NothingHappened /\ ~last.threw)

C9_Witness ==
  /\ AfterTerminal
  /\ Machine = "Target"
  /\ Pre.label = "expiredTransfer"
  /\ last.inputType = "init"
  /\ ~expired(Pre, last.payload)
  /\ NothingHappened

----------------------------------------------------------------------------
CanExpire(r) == \E b \in BlockNumbers : expired(recs[r].state, b)

TargetWaiting(r) ==
  /\ recs[r].stateMachine = "Target"
  /\ recs[r].state.label \notin TerminalLabels
  /\ CanExpire(r)

TargetDone(r) ==
  recs[r].state.label \in {"expiredTransfer", "completedTransfer"}

(* C10: Target timeout liveness.  With block ticks past the expiry margin
   eventually delivered, a Target record in a non-terminal state whose expiry
   margin a tick can pass reaches expiredTransfer or completedTransfer,
   whatever messages arrive in between. *)
C10_TargetTimeoutLiveness ==
  \A r \in RecordIds : TargetWaiting(r) ~> TargetDone(r)

C10_Witness ==
  /\ Handled
  /\ Machine = "Target"
  /\ Pre.label = "awaitSecretToProof"
  /\ last.inputType = "handleBlock"
  /\ BlockExpires
  /\ Post.label = "completedTransfer"
  /\ Names(last.out) = <<"closeChannel">>

----------------------------------------------------------------------------
InitiatorWaiting ==
  /\ Handled
  /\ Machine = "Initiator"
  /\ Pre.label \in {"awaitRequestSecret", "awaitRevealSecret"}

(* C11: Initiator timeout.  A block tick past the lock's expiry margin,
   delivered to an Initiator record that waits in awaitRequestSecret or
   awaitRevealSecret, forces it to a terminal label (expiredTransfer or
   failedTransfer). *)
C11_InitiatorTimeout ==
  (InitiatorWaiting /\ last.inputType = "handleBlock" /\ BlockExpires)
    => Post.label \in {"expiredTransfer", "failedTransfer"}

----------------------------------------------------------------------------
TargetAwaitsProof ==
  /\ Handled
  /\ Machine = "Target"
  /\ Pre.label = "awaitSecretToProof"

(* C12: a Target in awaitSecretToProof moves to completedTransfer emitting
   receiveSecretToProof on receiveSecretToProof(p) if and only if p.sender =
   state.from; on handleBlock(h) with lock.expiration <= h + RevealTimeout it
   emits closeChannel and moves to completedTransfer, and with
   lock.expiration > h + RevealTimeout it changes and emits nothing. *)
C12_TargetAwaitSecretToProof ==
  /\ (TargetAwaitsProof /\ last.inputType = "receiveSecretToProof") =>
       IF Sender = from(Pre)
         THEN /\ Post = [Pre EXCEPT !.label = "completedTransfer"]
              /\ Names(last.out) = <<"receiveSecretToProof">>
         ELSE NothingHappened
  /\ (TargetAwaitsProof /\ last.inputType = "handleBlock") =>
       IF Pre.lock.expiration <= last.payload.value + REVEAL_TIMEOUT
         THEN /\ Post = [Pre EXCEPT !.label = "completedTransfer"]
              /\ Names(last.out) = <<"closeChannel">>
         ELSE NothingHappened

C12_Witness ==
  /\ TargetAwaitsProof
  /\ last.inputType = "receiveSecretToProof"
  /\ Sender = from(Pre)
  /\ Sender # Pre.initiator
  /\ Post.label = "completedTransfer"
  /\ Names(last.out) = <<"receiveSecretToProof">>

----------------------------------------------------------------------------
TargetTickAwaitingSecret ==
  /\ Handled
  /\ Machine = "Target"
  /\ Pre.label = "awaitRevealSecret"
  /\ last.inputType = "handleBlock"

(* C13: a Target in awaitRevealSecret, on handleBlock(h), moves to
   expiredTransfer emitting nothing if lock.expiration <= h + RevealTimeout,
   and otherwise keeps its label and fields and emits nothing. *)
C13_TargetAwaitRevealSecretTick ==
  TargetTickAwaitingSecret =>
    /\ last.out = <<>>
    /\ IF Pre.lock.expiration <= last.payload.value + REVEAL_TIMEOUT
         THEN Post = [Pre EXCEPT !.label = "expiredTransfer"]
         ELSE Post = Pre

C13_Witness ==
  /\ TargetTickAwaitingSecret
  /\ Pre.lock.expiration = last.payload.value + REVEAL_TIMEOUT
  /\ Post.label = "expiredTransfer"
  /\ last.out = <<>>

----------------------------------------------------------------------------
(* C14: stale, mismatched or adversarial events never raise.  An event its
   state does not accept (wrong sender, hashLock or msgID, an unsigned
   message, an event kind the state has no handler for, a message event at a
   Target still in init) returns normally from handle(), leaves label and
   fields unchanged and emits nothing. *)
C14_MismatchNeverRaises ==
  (Handled /\ ~Accepted) => (NothingHappened /\ ~last.threw)

----------------------------------------------------------------------------
InitiatorEdges ==
  {<<"init", "awaitRequestSecret">>,
   <<"awaitRequestSecret", "awaitRevealSecret">>,
   <<"awaitRevealSecret", "completedTransfer">>}

TargetEdges ==
  {<<"init", "awaitRevealSecret">>,
   <<"awaitRevealSecret", "awaitSecretToProof">>,
   <<"awaitSecretToProof", "completedTransfer">>,
   <<"init", "expiredTransfer">>,
   <<"awaitRevealSecret", "expiredTransfer">>}

(* Every b in seq has an a before it. *)
OnlyAfter(seq, b, a) ==
  \A j \in DOMAIN seq :
    seq[j].event = b => \E i \in 1..(j - 1) : seq[i].event = a

(* C20: label progression is strictly forward.  Every change of label is one
   step of init -> awaitRequestSecret -> awaitRevealSecret ->
   completedTransfer for an Initiator, and one step of init ->
   awaitRevealSecret -> awaitSecretToProof -> completedTransfer, or init ->
   expiredTransfer, or awaitRevealSecret -> expiredTransfer for a Target.
   Hence sendSecretToProof is emitted only after sendRevealSecret, that only
   after sendMediatedTransfer, and a Target's sendRevealSecret only after
   its sendRequestSecret. *)
C20_ForwardProgression ==
  /\ (Handled /\ LabelMoved) =>
       <<Pre.label, Post.label>> \in
         (IF Machine = "Initiator" THEN InitiatorEdges ELSE TargetEdges)
  /\ \A r \in DOMAIN recs :
       IF recs[r].stateMachine = "Initiator"
         THEN /\ OnlyAfter(emitted[r], "sendSecretToProof", "sendRevealSecret")
              /\ OnlyAfter(emitted[r], "sendRevealSecret", "sendMediatedTransfer")
         ELSE OnlyAfter(emitted[r], "sendRevealSecret", "sendRequestSecret")

C20_Witness ==
  /\ Handled
  /\ Machine = "Target"
  /\ Pre.label = "awaitSecretToProof"
  /\ Post.label = "completedTransfer"
  /\ Names(emitted[last.rid]) =
       <<"sendRequestSecret", "sendRevealSecret", "receiveSecretToProof">>

----------------------------------------------------------------------------
(* What the call just made did to the record it was made for: the outcome of
   the handlers on that record alone. *)
OwnRun(k) ==
  LET cx == applyMessage(recs[k], last'.inputType, last'.payload)
  IN  /\ last'.pre = recs[k].state
      /\ recs'[k] = [recs[k] EXCEPT !.state = cx.state]
      /\ emitted'[k] = emitted[k] \o cx.out
      /\ last'.out = cx.out

Untouched(k) ==
  /\ recs'[k] = recs[k]
  /\ emitted'[k] = emitted[k]
  /\ lastBlock'[k] = lastBlock[k]

(* C15: instance isolation.  With several records behind one machine and
   their handle() calls interleaved in any order, a call for one record
   leaves the label, the fields and the emissions of every other record as
   they were, and does to its own record what the handlers do to that record
   alone. *)
C15_InstanceIsolation ==
  [][\A k \in DOMAIN recs :
       IF k = last'.rid THEN OwnRun(k) ELSE Untouched(k)]_vars

C15_Witness ==
  /\ Handled
  /\ Cardinality(DOMAIN recs) > 1
  /\ LabelMoved
  /\ \E k \in DOMAIN recs :
       /\ k # last.rid
       /\ recs[k].stateMachine = Machine
       /\ recs[k].state.label \notin {"init", Post.label}
       /\ emitted[k] # <<>>

----------------------------------------------------------------------------
(* Vocabulary of the message-layer properties. *)

Signed == codec.m.signature.t = "Signature"

SenderOf(m) == SignedMessage_from(m)

(* The properties whose value is no longer the one the last sign() hashed. *)
ChangedSinceSigning ==
  {path \in Paths : Get(codec.m, path) # Get(codec.signedAs, path)}

(* The documented hash pre-image of each signable kind. *)
ProofHeader == {"nonce", "transferredAmount", "channelAddress", "locksRoot"}
LockPaths == {"lock.amount", "lock.expiration", "lock.hashLock"}

PreImage(kind) ==
  CASE kind = "Proof" -> ProofHeader \cup {"messageHash"}
    [] kind = "DirectTransfer" -> ProofHeader \cup {"msgID", "to"}
    [] kind = "LockedTransfer" -> ProofHeader \cup {"msgID", "to"} \cup LockPaths
    [] kind = "MediatedTransfer" ->
         ProofHeader \cup {"msgID", "to", "target", "initiator"} \cup LockPaths
    [] kind = "RequestSecret" -> {"msgID", "to", "hashLock", "amount"}
    [] kind = "RevealSecret" -> {"secret", "to"}
    [] kind = "SecretToProof" -> ProofHeader \cup {"msgID", "to", "secret"}
    [] OTHER -> {}

SignableKinds ==
  {"Proof", "DirectTransfer", "LockedTransfer", "MediatedTransfer",
   "RequestSecret", "RevealSecret", "SecretToProof"}

WireKinds == SignableKinds \cup {"Ack", "Lock", "OpenLock"}

KnownClassTypes == WireKinds \cup {"SignedMessage", "ProofMessage"}

(* C16: wire round trip.  For a message of any kind that goes over the wire
   (Proof, DirectTransfer, LockedTransfer, MediatedTransfer, RequestSecret,
   RevealSecret, SecretToProof, Ack, Lock, OpenLock),
   DESERIALIZE_AND_DECODE_MESSAGE(SERIALIZE(m)) returns, and returns a
   message of the same kind with every field, the signature and the nested
   lock equal to those of m. *)
C16_WireRoundTrip ==
  (codec.op = "roundtrip" /\ codec.pre.kind \in WireKinds)
    => (codec.res.threw = "" /\ codec.res.v = codec.pre)

(* C17: sign / recover.  For a message of a signable kind that carries a
   signature: right after sign(k) its `from` is the address of k; as long as
   no property of the kind's hash pre-image differs from what was signed,
   `from` is the signer's address; once one differs, `from` throws or is
   another address. *)
C17_SignRecover ==
  (codec.op # "none" /\ codec.m.kind \in SignableKinds /\ Signed) =>
    LET sender == SenderOf(codec.m)
        signer == privateToAddress(codec.m.signature.key)
        changed == ChangedSinceSigning \cap PreImage(codec.m.kind)
    IN  /\ (codec.op = "sign" /\ codec.res.threw = "")
             => sender = Returns(privateToAddress(codec.arg))
        /\ (changed = {}) => sender = Returns(signer)
        /\ (changed # {}) => (sender.threw # "" \/ sender.v # signer)

C17_Witness ==
  /\ codec.op = "set"
  /\ codec.m.kind = "MediatedTransfer"
  /\ Signed
  /\ codec.arg = "lock.hashLock"
  /\ SenderOf(codec.pre) = Returns(privateToAddress(codec.m.signature.key))
  /\ SenderOf(codec.m).v # privateToAddress(codec.m.signature.key)

(* C18: the sender accessor.  For a message of a SignedMessage class, after
   any run of construction, sign(k) and wire round trips, `from` throws the
   no-signature error exactly when the message carries no signature and
   otherwise returns an address; sign(k) stores the signature of k over the
   current hash whatever signature was there before, a round trip keeps the
   signature, and while the signed properties are as signed the address is
   that of the key of the last sign call. *)
C18_SenderAccessor ==
  (codec.op # "none" /\ codec.m.kind \in SignedKinds) =>
    LET sender == SenderOf(codec.m)
    IN  /\ (sender.threw = UnsignedError) <=> ~Truthy(codec.m.signature)
        /\ Truthy(codec.m.signature) => sender.threw = ""
        /\ (codec.op = "sign" /\ codec.res.threw = "")
             => /\ codec.m.signature = ecsign(getHash(codec.m).v, codec.arg)
                /\ sender = Returns(privateToAddress(codec.arg))
        /\ (codec.op = "roundtrip")
             => /\ codec.res.threw = ""
                /\ codec.m.signature = codec.pre.signature
                /\ sender = SenderOf(codec.pre)
        /\ (Signed /\ ChangedSinceSigning = {})
             => sender = Returns(privateToAddress(codec.signedAs.signature.key))

C18_Witness ==
  /\ codec.op = "sign"
  /\ codec.res.threw = ""
  /\ codec.pre.signature.t = "Signature"
  /\ codec.pre.signature.key # codec.arg
  /\ SenderOf(codec.m) = Returns(privateToAddress(codec.arg))

(* C19: decode dispatch.  Wire data whose classType is one of the known
   kinds decodes to a message of exactly that kind, whatever kind of message
   the data was made from; wire data with no classType, or with any other
   classType, makes decode throw and return no message. *)
C19_DecodeDispatch ==
  (codec.op = "receive") =>
    IF codec.arg \in KnownClassTypes
      THEN codec.res.threw = "" /\ codec.res.v.kind = codec.arg
      ELSE /\ codec.res.threw \in
                {"Invalid Message: unknown classType",
                 "Invalid Message: not a recoginized GOT message type"}
           /\ codec.res.v = <<>>

C19_Witness ==
  /\ codec.op = "receive"
  /\ codec.arg = "MediatedTransfer"
  /\ codec.pre.kind = "RequestSecret"
  /\ codec.res.threw = ""
  /\ codec.res.v.kind = "MediatedTransfer"
  /\ codec.res.v.f.msgID = codec.pre.f.msgID

----------------------------------------------------------------------------
TargetGetsReveal ==
  /\ Handled
  /\ Machine = "Target"
  /\ Pre.label = "awaitRevealSecret"
  /\ last.inputType = "receiveRevealSecret"

RevealMatches ==
  /\ sha3(last.payload.secret) = Pre.lock.hashLock
  /\ Sender = Pre.initiator

SecretKnown(state) ==
  /\ state.secret # Undefined
  /\ sha3(state.secret) = state.lock.hashLock

(* C21: a Target record in awaitRevealSecret that gets receiveRevealSecret(rv)
   moves to awaitSecretToProof if and only if hash(rv.secret) is the lock's
   hashLock and rv's sender is state.initiator; on that move the record holds
   secret = rv.secret and revealTo = state.from already when sendRevealSecret
   is emitted, and otherwise the record stays as it was.  So every Target
   record in awaitSecretToProof or completedTransfer holds a secret whose
   hash is its lock's hashLock. *)
C21_TargetStoresSecret ==
  /\ TargetGetsReveal =>
       /\ (Post.label = "awaitSecretToProof") <=> RevealMatches
       /\ RevealMatches =>
            /\ Post.secret = last.payload.secret
            /\ Post.revealTo = from(Pre)
            /\ last.out = <<[event |-> "sendRevealSecret",
                             label |-> "awaitRevealSecret",
                             secret |-> last.payload.secret,
                             revealTo |-> from(Pre)]>>
       /\ ~RevealMatches => NothingHappened
  /\ \A r \in DOMAIN recs :
       (/\ recs[r].stateMachine = "Target"
        /\ recs[r].state.label \in {"awaitSecretToProof", "completedTransfer"})
         => SecretKnown(recs[r].state)

C21_Witness ==
  /\ TargetGetsReveal
  /\ RevealMatches
  /\ Post.label = "awaitSecretToProof"
  /\ Post.secret = "X"
  /\ Post.revealTo = "B"

----------------------------------------------------------------------------
HasEmitted(r, name) == Count(emitted[r], name) > 0

(* C22: a Target record that has emitted sendRevealSecret is never in
   expiredTransfer: it is in awaitSecretToProof or completedTransfer, and it
   leaves awaitSecretToProof only for completedTransfer, either on a
   SecretToProof from state.from (emitting receiveSecretToProof) or on a
   block tick past the expiry margin (emitting closeChannel).  A Target
   record in expiredTransfer has emitted none of sendRevealSecret,
   receiveSecretToProof and closeChannel. *)
C22_NoExpiryAfterSecret ==
  /\ \A r \in DOMAIN recs :
       recs[r].stateMachine = "Target" =>
         /\ HasEmitted(r, "sendRevealSecret") =>
              recs[r].state.label \in {"awaitSecretToProof", "completedTransfer"}
         /\ recs[r].state.label = "expiredTransfer" =>
              \A name \in {"sendRevealSecret", "receiveSecretToProof",
                           "closeChannel"} : ~HasEmitted(r, name)
  /\ (TargetAwaitsProof /\ LabelMoved) =>
       /\ Post.label = "completedTransfer"
       /\ \/ /\ last.inputType = "receiveSecretToProof"
             /\ Sender = from(Pre)
             /\ Names(last.out) = <<"receiveSecretToProof">>
          \/ /\ last.inputType = "handleBlock"
             /\ BlockExpires
             /\ Names(last.out) = <<"closeChannel">>

C22_Witness ==
  /\ TargetAwaitsProof
  /\ last.inputType = "handleBlock"
  /\ BlockExpires
  /\ Post.label = "completedTransfer"
  /\ Names(emitted[last.rid]) =
       <<"sendRequestSecret", "sendRevealSecret", "closeChannel">>

(* C23: over every sequence of handle() calls on one record, each kind of
   side-effect is emitted at most once for the record, and a Target record
   emits at most one of receiveSecretToProof and closeChannel. *)
C23_AtMostOnce ==
  \A r \in DOMAIN recs :
    /\ \A name \in {"sendMediatedTransfer", "sendRequestSecret",
                    "sendRevealSecret", "sendSecretToProof",
                    "receiveSecretToProof", "closeChannel"} :
         Count(emitted[r], name) <= 1
    /\ recs[r].stateMachine = "Target" =>
         Count(emitted[r], "receiveSecretToProof")
           + Count(emitted[r], "closeChannel") <= 1
    /\ recs[r].stateMachine = "Initiator" =>
         \A i \in DOMAIN emitted[r] :
           emitted[r][i].event \in
             {"sendMediatedTransfer", "sendRevealSecret", "sendSecretToProof"}
    /\ recs[r].stateMachine = "Target" =>
         \A i \in DOMAIN emitted[r] :
           emitted[r][i].event \in
             {"sendRequestSecret", "sendRevealSecret", "receiveSecretToProof",
              "closeChannel"}

C23_Witness ==
  /\ Handled
  /\ AfterTerminal
  /\ Machine = "Target"
  /\ last.inputType = "receiveSecretToProof"
  /\ Sender = from(Pre)
  /\ Names(emitted[last.rid]) =
       <<"sendRequestSecret", "sendRevealSecret", "receiveSecretToProof">>

----------------------------------------------------------------------------
(* How many times the listener of the latest call fed the event back. *)
Fed == IF "fed" \in DOMAIN last THEN last.fed ELSE 0

(* The record after the same call with no listener on the machine. *)
Unlistened ==
  applyMessage(MessageState(Pre, Machine), last.inputType, last.payload)

(* C24: emit before transition.  Every side-effect of a call is emitted while
   the record still carries the label it had before the call, so a listener
   that looks at the record during the emit sees the old label, and a
   listener that feeds the accepted event back into handle() during the emit
   has it accepted again, once more for every time it does so, each with an
   emission of its own under the old label; the record ends where the call
   without a listener leaves it. *)
C24_EmitBeforeTransition ==
  Handled =>
    /\ \A i \in DOMAIN last.out : last.out[i].label = Pre.label
    /\ Len(last.out) = IF Unlistened.out = <<>> THEN 0 ELSE Fed + 1
    /\ \A i \in DOMAIN last.out : last.out[i].event = Unlistened.out[1].event
    /\ Post = Unlistened.state

C24_Witness ==
  /\ Handled
  /\ Fed > 0
  /\ Machine = "Target"
  /\ Pre.label = "awaitRevealSecret"
  /\ Post.label = "awaitSecretToProof"
  /\ Len(last.out) = Fed + 1
  /\ \A i \in DOMAIN last.out :
       /\ last.out[i].event = "sendRevealSecret"
       /\ last.out[i].label = "awaitRevealSecret"

====
